---- MODULE Spec2Model ----
(***************************************************************************)
(* rust-affected: which workspace members are affected by a set of changed *)
(* files.  The model follows src/src/lib.rs: is_excluded,                  *)
(* check_force_triggers and compute_affected, with the parts of std::path, *)
(* globset and guppy that these functions call modelled by what they do.   *)
(*                                                                         *)
(* Strings are sequences of one-character strings, so that prefixes,       *)
(* separators and byte order are computed and not assumed.                 *)
(***************************************************************************)
EXTENDS Integers, Sequences, FiniteSets

VARIABLES graph, changed_files, force_triggers, excluded,
          pc, builder, force_all, direct_ids, affected_set, result, trace

vars == <<graph, changed_files, force_triggers, excluded,
          pc, builder, force_all, direct_ids, affected_set, result, trace>>

inputs == <<graph, changed_files, force_triggers, excluded>>

----------------------------------------------------------------------------
(* Strings *)

Letters == <<"a","b","c","d","e","f","g","h","i","j","k","l","m","n","o","p","q","r","s","t","u","v","w","x","y","z">>

IndexOf(seq, c) == CHOOSE i \in 1..Len(seq) : seq[i] = c

\* Byte value of a character (Rust compares String values bytewise).
Ord(c) ==
    CASE c = "*" -> 42
      [] c = "-" -> 45
      [] c = "." -> 46
      [] c = "/" -> 47
      [] c = "?" -> 63
      [] c = "[" -> 91
      [] c \in {Letters[i] : i \in 1..Len(Letters)} -> 96 + IndexOf(Letters, c)
      [] OTHER -> 64 + IndexOf(<<"A","B","C","D","E","F","G","H","I","J","K","L","M","N","O","P","Q","R","S","T","U","V","W","X","Y","Z">>, c)

\* a < b in the order of str::cmp (lexicographic on bytes).
StrLess(a, b) ==
    \E i \in 1..(Len(a) + 1) :
        /\ i <= Len(b)
        /\ \A j \in 1..(i - 1) : a[j] = b[j]
        /\ (i > Len(a) \/ Ord(a[i]) < Ord(b[i]))

contains(s, c) == \E i \in 1..Len(s) : s[i] = c

ends_with(s, c) == Len(s) > 0 /\ s[Len(s)] = c

\* str::starts_with on strings: a raw string prefix.
str_starts_with(s, prefix) ==
    Len(prefix) <= Len(s) /\ SubSeq(s, 1, Len(prefix)) = prefix

\* str::strip_suffix('/').unwrap_or(entry): removes one trailing slash.
strip_suffix_slash(entry) ==
    IF ends_with(entry, "/") THEN SubSeq(entry, 1, Len(entry) - 1) ELSE entry

----------------------------------------------------------------------------
(* std::path on Unix *)

RootDir == <<"/">>
CurDir == <<".">>

RECURSIVE SplitFrom(_, _, _)
SplitFrom(s, i, cur) ==
    IF i > Len(s) THEN <<cur>>
    ELSE IF s[i] = "/" THEN <<cur>> \o SplitFrom(s, i + 1, << >>)
    ELSE SplitFrom(s, i + 1, Append(cur, s[i]))

\* Path::components: a leading "/" is the root component, repeated and
\* trailing separators vanish, "." is kept only as the first component.
components(s) ==
    LET pieces == SplitFrom(s, 1, << >>)
        has_root == Len(s) > 0 /\ s[1] = "/"
        keep(i) == /\ pieces[i] # << >>
                   /\ (pieces[i] = CurDir => (i = 1 /\ ~has_root))
        normal == SelectSeq([i \in 1..Len(pieces) |-> <<i, pieces[i]>>],
                            LAMBDA p : keep(p[1]))
    IN  (IF has_root THEN <<RootDir>> ELSE << >>)
        \o [i \in 1..Len(normal) |-> normal[i][2]]

RECURSIVE JoinFrom(_, _)
JoinFrom(comps, i) ==
    IF i > Len(comps) THEN << >>
    ELSE IF i = Len(comps) THEN comps[i]
    ELSE comps[i] \o <<"/">> \o JoinFrom(comps, i + 1)

\* The string of a path made of the given components.
path_str(comps) ==
    IF comps # << >> /\ comps[1] = RootDir
    THEN <<"/">> \o JoinFrom(comps, 2)
    ELSE JoinFrom(comps, 1)

\* Faulty variant: a raw string prefix instead of a component prefix.
path_starts_with_raw(path, base) == str_starts_with(path, base)

\* Path::starts_with: base's components are a prefix of path's components.
path_starts_with(path, base) ==
    LET p == components(path)
        b == components(base)
    IN  Len(b) <= Len(p) /\ SubSeq(p, 1, Len(b)) = b

\* Path::parent: the path without its last component.
parent(path) ==
    LET p == components(path) IN path_str(SubSeq(p, 1, Len(p) - 1))

\* dir.strip_prefix(workspace_root).unwrap_or(dir)
strip_prefix_or(dir, root) ==
    IF path_starts_with(dir, root)
    THEN LET d == components(dir)
         IN  path_str(SubSeq(d, Len(components(root)) + 1, Len(d)))
    ELSE dir

----------------------------------------------------------------------------
(* is_excluded *)

\* Faulty variant: the path prefix is not closed by a separator.
entry_excludes_raw(entry, pkg_name, dir_str) ==
    IF contains(entry, "/")
    THEN str_starts_with(dir_str, strip_suffix_slash(entry))
    ELSE pkg_name = entry

\* Faulty variant: a name rule is also tried as a directory prefix.
entry_excludes_name_as_dir(entry, pkg_name, dir_str) ==
    LET prefix == strip_suffix_slash(entry)
    IN  \/ dir_str = prefix
        \/ str_starts_with(dir_str, prefix \o <<"/">>)
        \/ (~contains(entry, "/") /\ pkg_name = entry)

\* One entry of the exclusion set against one package: an entry with a '/'
\* is a path prefix of the relative directory, any other entry is a name.
entry_excludes(entry, pkg_name, dir_str) ==
    IF contains(entry, "/")
    THEN LET prefix == strip_suffix_slash(entry)
         IN  dir_str = prefix \/ str_starts_with(dir_str, prefix \o <<"/">>)
    ELSE pkg_name = entry

is_excluded(pkg_name, pkg_relative_dir, excl) ==
    \E entry \in excl : entry_excludes(entry, pkg_name, pkg_relative_dir)

----------------------------------------------------------------------------
(* globset, with the default options Glob::new uses: '*' and '?' may match *)
(* a separator (literal_separator is off), "**" is recursive only as a     *)
(* whole path component.  Patterns here use literals, '?', '*', "**" and   *)
(* '['; with no ']' in any pattern a '[' is an unclosed character class.   *)

Tok(t, c) == [t |-> t, c |-> c]

Literal(c) == Tok("Literal", c)
AnyChar == Tok("Any", "")
ZeroOrMore == Tok("ZeroOrMore", "")
RecursivePrefix == Tok("RecursivePrefix", "")
RecursiveSuffix == Tok("RecursiveSuffix", "")
RecursiveZeroOrMore == Tok("RecursiveZeroOrMore", "")

GlobOk(tokens) == [ok |-> TRUE, tokens |-> tokens]
GlobErr == [ok |-> FALSE, tokens |-> << >>]

is_separator(p, i) == i >= 1 /\ i <= Len(p) /\ p[i] = "/"

RECURSIVE ParseFrom(_, _, _)
\* Parser::parse from position i of pattern p, with the tokens pushed so far.
ParseFrom(p, i, toks) ==
    IF i > Len(p) THEN GlobOk(toks)
    ELSE IF p[i] = "?" THEN ParseFrom(p, i + 1, Append(toks, AnyChar))
    ELSE IF p[i] = "[" THEN GlobErr
    ELSE IF p[i] # "*" THEN ParseFrom(p, i + 1, Append(toks, Literal(p[i])))
    \* parse_star
    ELSE IF ~(i + 1 <= Len(p) /\ p[i + 1] = "*")
         THEN ParseFrom(p, i + 1, Append(toks, ZeroOrMore))
    ELSE IF toks = << >>
         THEN IF i + 2 <= Len(p) /\ ~is_separator(p, i + 2)
              THEN ParseFrom(p, i + 2, <<ZeroOrMore, ZeroOrMore>>)
              ELSE ParseFrom(p, i + 3, <<RecursivePrefix>>)
    ELSE IF ~is_separator(p, i - 1)
         THEN ParseFrom(p, i + 2, toks \o <<ZeroOrMore, ZeroOrMore>>)
    ELSE IF i + 2 <= Len(p) /\ ~is_separator(p, i + 2)
         THEN ParseFrom(p, i + 2, toks \o <<ZeroOrMore, ZeroOrMore>>)
    ELSE LET is_suffix == i + 2 > Len(p)
             next == IF is_suffix THEN i + 2 ELSE i + 3
             last == toks[Len(toks)]
             popped == SubSeq(toks, 1, Len(toks) - 1)
             pushed == IF last \in {RecursivePrefix, RecursiveSuffix} THEN last
                       ELSE IF is_suffix THEN RecursiveSuffix
                       ELSE RecursiveZeroOrMore
         IN  ParseFrom(p, next, Append(popped, pushed))

\* Faulty variant: an invalid pattern is skipped, leaving a glob of no tokens.
Glob_new_lenient(pattern) ==
    LET glob == ParseFrom(pattern, 1, << >>)
    IN  IF glob.ok THEN glob ELSE GlobOk(<< >>)

\* Glob::new(&pattern)
Glob_new(pattern) == ParseFrom(pattern, 1, << >>)

RECURSIVE MatchFrom(_, _, _, _)
\* The anchored regex of the tokens from token i against s from position j.
MatchFrom(toks, i, s, j) ==
    IF i > Len(toks) THEN j = Len(s) + 1
    ELSE LET tok == toks[i]
             rest(k) == MatchFrom(toks, i + 1, s, k)
             slash(k) == k <= Len(s) /\ s[k] = "/"
         IN  CASE tok.t = "Literal" -> j <= Len(s) /\ s[j] = tok.c /\ rest(j + 1)
               [] tok.t = "Any" -> j <= Len(s) /\ rest(j + 1)
               [] tok.t = "ZeroOrMore" -> \E k \in j..(Len(s) + 1) : rest(k)
               \* (?:/?|.*/)
               [] tok.t = "RecursivePrefix" ->
                     \/ rest(j)
                     \/ \E k \in j..Len(s) : slash(k) /\ rest(k + 1)
               \* /.*
               [] tok.t = "RecursiveSuffix" ->
                     slash(j) /\ \E k \in (j + 1)..(Len(s) + 1) : rest(k)
               \* (?:/|/.*/)
               [] tok.t = "RecursiveZeroOrMore" ->
                     slash(j) /\ (\/ rest(j + 1)
                                  \/ \E k \in (j + 1)..Len(s) : slash(k) /\ rest(k + 1))

\* Glob matching of one compiled pattern against a path string as given; a
\* glob that is only "**" matches everything.
glob_is_match(tokens, path) ==
    tokens = <<RecursivePrefix>> \/ MatchFrom(tokens, 1, path, 1)

\* Faulty variant: only the first glob of the set is tried.
is_match_first_only(globset, path) ==
    Len(globset) >= 1 /\ glob_is_match(globset[1], path)

\* GlobSet::is_match: some glob of the set matches.
is_match(globset, path) ==
    \E i \in 1..Len(globset) : glob_is_match(globset[i], path)

\* Faulty variant: a pattern without a slash is also looked for in every
\* directory, as an ignore file would.
normalise_anywhere(trigger) ==
    IF ends_with(trigger, "/") THEN trigger \o <<"*", "*">>
    ELSE IF ~contains(trigger, "/") THEN <<"*", "*", "/">> \o trigger
    ELSE trigger

\* A trailing-slash trigger becomes "<trigger>**".
normalise(trigger) ==
    IF ends_with(trigger, "/") THEN trigger \o <<"*", "*">> ELSE trigger

\* check_force_triggers as a function: ok = FALSE is the panic on an invalid
\* pattern, raised while the set is built and before any file is matched.
check_force_triggers(files, triggers) ==
    IF triggers = << >> THEN [ok |-> TRUE, value |-> FALSE]
    ELSE LET globs == [i \in 1..Len(triggers) |-> Glob_new(normalise(triggers[i]))]
         IN  IF \E i \in 1..Len(globs) : ~globs[i].ok
             THEN [ok |-> FALSE, value |-> FALSE]
             ELSE [ok |-> TRUE,
                   value |-> \E n \in 1..Len(files) :
                                is_match([i \in 1..Len(globs) |-> globs[i].tokens],
                                         files[n])]

----------------------------------------------------------------------------
(* guppy: the package graph *)

\* Build targets: BuildTargetId variant and BuildTargetKind of each target.
LibraryTarget == [id |-> "Library", kind |-> "LibraryOrExample"]
BinaryTarget == [id |-> "Binary", kind |-> "Binary"]
\* An integration test: its own target id, and the kind guppy gives to
\* binaries, tests, benches and build scripts alike.
TestTarget == [id |-> "Test", kind |-> "Binary"]

Package(name, manifest_path, targets) ==
    [name |-> name, manifest_path |-> manifest_path, targets |-> targets]

\* The workspace members of the modelled graphs, after the test fixture
\* (tests/fixtures/workspace), plus a member under tools-other/; lib-core-ext
\* has integration tests, as the fixture's lib-with-tests has.
Members ==
    [lu  |-> Package(<<"l","i","b","-","u","t","i","l","s">>, <<"/","w","/","l","i","b","-","u","t","i","l","s","/","C","a","r","g","o",".","t","o","m","l">>, {LibraryTarget}),
     lc  |-> Package(<<"l","i","b","-","c","o","r","e">>, <<"/","w","/","l","i","b","-","c","o","r","e","/","C","a","r","g","o",".","t","o","m","l">>, {LibraryTarget}),
     lce |-> Package(<<"l","i","b","-","c","o","r","e","-","e","x","t">>, <<"/","w","/","l","i","b","-","c","o","r","e","-","e","x","t","/","C","a","r","g","o",".","t","o","m","l">>,
                     {LibraryTarget, TestTarget}),
     aa  |-> Package(<<"a","p","p","-","a","l","p","h","a">>, <<"/","w","/","a","p","p","-","a","l","p","h","a","/","C","a","r","g","o",".","t","o","m","l">>, {BinaryTarget}),
     ta  |-> Package(<<"t","o","o","l","-","a","l","p","h","a">>, <<"/","w","/","t","o","o","l","s","/","t","o","o","l","-","a","l","p","h","a","/","C","a","r","g","o",".","t","o","m","l">>, {BinaryTarget}),
     tb  |-> Package(<<"t","o","o","l","-","b","e","t","a">>, <<"/","w","/","t","o","o","l","s","-","o","t","h","e","r","/","t","o","o","l","-","b","e","t","a","/","C","a","r","g","o",".","t","o","m","l">>,
                     {LibraryTarget, BinaryTarget})]

MemberDeps ==
    {<<"lc", "lu">>, <<"lce", "lc">>, <<"aa", "lc">>, <<"ta", "lu">>}

\* The relative_dir closure of compute_affected, on a manifest path.
relative_dir_of(manifest_path, workspace_root) ==
    strip_prefix_or(parent(manifest_path), workspace_root)

\* A graph: the members above and one package from outside the workspace
\* (id "ext", kept under /r), named ext_name, with the edges ext_deps.
\* forward is the order in which packages(Forward) yields the packages:
\* dependents before their dependencies.  The graph is immutable, so the
\* relative directory of each package is tabulated with it.
Graph(ext_name, ext_deps, forward) ==
    LET root == <<"/","w">>
        packages == [id \in DOMAIN Members \cup {"ext"} |->
                       IF id = "ext"
                       THEN Package(ext_name, <<"/","r","/">> \o ext_name \o <<"/","C","a","r","g","o",".","t","o","m","l">>,
                                    {LibraryTarget})
                       ELSE Members[id]]
    IN  [root |-> root,
         members |-> <<"aa", "lc", "lce", "lu", "tb", "ta">>,
         packages |-> packages,
         relative_dirs |-> [id \in DOMAIN packages |->
                              relative_dir_of(packages[id].manifest_path, root)],
         deps |-> MemberDeps \cup ext_deps,
         forward |-> forward]

\* Cargo resolves only what the members need, so every package of a graph is
\* reachable from a member; an outside package may carry a member's name
\* (a member depending on a published version of itself) and may depend on a
\* member (a [patch]ed or path dependency).
Graphs ==
    { Graph(<<"d","e","p">>, {<<"lu", "ext">>},
            <<"aa", "ta", "tb", "lce", "lc", "lu", "ext">>),
      Graph(<<"l","i","b","-","c","o","r","e">>, {<<"lc", "ext">>},
            <<"aa", "ta", "tb", "lce", "lc", "ext", "lu">>),
      Graph(<<"l","i","b","-","u","t","i","l","s">>, {<<"tb", "ext">>, <<"ext", "lce">>},
            <<"aa", "ta", "tb", "ext", "lce", "lc", "lu">>) }

\* Members lying in one another: a package at the workspace root, outer
\* with inner in a sub-directory of it, a dependent of the root package, and
\* a member kept outside the workspace root (members = ["../out"]).
NestedMembers ==
    [top   |-> Package(<<"t","o","p">>, <<"/","w","/","C","a","r","g","o",".","t","o","m","l">>, {LibraryTarget}),
     outer |-> Package(<<"o","u","t","e","r">>, <<"/","w","/","o","u","t","e","r","/","C","a","r","g","o",".","t","o","m","l">>, {LibraryTarget}),
     inner |-> Package(<<"i","n","n","e","r">>, <<"/","w","/","o","u","t","e","r","/","i","n","n","e","r","/","C","a","r","g","o",".","t","o","m","l">>, {BinaryTarget}),
     side  |-> Package(<<"s","i","d","e">>, <<"/","w","/","s","i","d","e","/","C","a","r","g","o",".","t","o","m","l">>, {LibraryTarget}),
     user  |-> Package(<<"u","s","e","r">>, <<"/","w","/","u","s","e","r","/","C","a","r","g","o",".","t","o","m","l">>, {BinaryTarget}),
     out   |-> Package(<<"o","u","t">>, <<"/","x","/","o","u","t","/","C","a","r","g","o",".","t","o","m","l">>, {LibraryTarget})]

\* The workspace of the members listed in members, in that iteration order.
NestedGraph(members) ==
    LET root == <<"/","w">>
        ids == {members[i] : i \in 1..Len(members)}
        packages == [id \in ids |-> NestedMembers[id]]
    IN  [root |-> root,
         members |-> members,
         packages |-> packages,
         relative_dirs |-> [id \in ids |->
                              relative_dir_of(packages[id].manifest_path, root)],
         deps |-> {d \in {<<"user", "top">>, <<"inner", "side">>} :
                      d[1] \in ids /\ d[2] \in ids},
         forward |-> members]

\* With and without a package at the workspace root.
NestedGraphs ==
    { NestedGraph(<<"user", "inner", "top", "outer", "side", "out">>),
      NestedGraph(<<"user", "inner", "outer", "side", "out">>) }

pkg_ids(g) == DOMAIN g.packages

pkg_name(g, id) == g.packages[id].name

\* workspace.contains_name(name)
contains_name(g, name) ==
    \E i \in 1..Len(g.members) : pkg_name(g, g.members[i]) = name

\* relative_dir(&pkg)
relative_dir(g, id) == g.relative_dirs[id]

RECURSIVE Closure(_, _)
\* Least set containing seeds and closed under the edge relation step.
Closure(seeds, step) ==
    LET more == seeds \cup {e[2] : e \in {d \in step : d[1] \in seeds}}
    IN  IF more = seeds THEN seeds ELSE Closure(more, step)

\* graph.query_workspace().resolve(): the members and all they depend on.
query_workspace(g) ==
    Closure({g.members[i] : i \in 1..Len(g.members)}, g.deps)

\* Faulty variant: the queried packages themselves are left out.
query_reverse_dependents_only(g, ids) ==
    Closure({ids[i] : i \in 1..Len(ids)}, {<<d[2], d[1]>> : d \in g.deps})
        \ {ids[i] : i \in 1..Len(ids)}

\* graph.query_reverse(ids).resolve(): ids and all that depend on them.
query_reverse(g, ids) ==
    Closure({ids[i] : i \in 1..Len(ids)}, {<<d[2], d[1]>> : d \in g.deps})

\* affected_set.packages(Forward)
packages_forward(g, set) == SelectSeq(g.forward, LAMBDA id : id \in set)

----------------------------------------------------------------------------
(* compute_affected *)

RECURSIVE InsertSorted(_, _)
InsertSorted(sorted, x) ==
    IF sorted = << >> THEN <<x>>
    ELSE IF StrLess(x, sorted[1]) THEN <<x>> \o sorted
    ELSE <<sorted[1]>> \o InsertSorted(Tail(sorted), x)

\* Faulty variant: the lists are left in the order the graph yields them.
sort_skipped(v) == v

RECURSIVE sort(_)
\* Vec<String>::sort
sort(v) ==
    IF v = << >> THEN << >>
    ELSE InsertSorted(sort(SubSeq(v, 1, Len(v) - 1)), v[Len(v)])

names_of(g, ids) == [i \in 1..Len(ids) |-> pkg_name(g, ids[i])]

\* Faulty variant: all() in place of any().
map_changed_files_all(g, files) ==
    SelectSeq(g.members,
              LAMBDA id : \A n \in 1..Len(files) :
                              path_starts_with(files[n], relative_dir(g, id)))

\* Faulty variant: a file marks only the innermost package around it.
map_changed_files_innermost(g, files) ==
    SelectSeq(g.members,
              LAMBDA id : \E n \in 1..Len(files) :
                  /\ path_starts_with(files[n], relative_dir(g, id))
                  /\ \A i \in 1..Len(g.members) :
                         path_starts_with(files[n], relative_dir(g, g.members[i]))
                             => Len(relative_dir(g, g.members[i]))
                                    <= Len(relative_dir(g, id)))

\* Faulty variant: a changed file under the workspace root is first made
\* relative to it.
map_changed_files_relative_to_root(g, files) ==
    SelectSeq(g.members,
              LAMBDA id : \E n \in 1..Len(files) :
                              path_starts_with(strip_prefix_or(files[n], g.root),
                                               relative_dir(g, id)))

\* The loop over graph.workspace().iter() that fills direct_ids.
map_changed_files(g, files) ==
    SelectSeq(g.members,
              LAMBDA id : \E n \in 1..Len(files) :
                              path_starts_with(files[n], relative_dir(g, id)))

\* The filter shared by the three lists.
member_filter(g, id, excl) ==
    /\ contains_name(g, pkg_name(g, id))
    /\ ~is_excluded(pkg_name(g, id), relative_dir(g, id), excl)

\* Faulty variant: the target kind is tested, not the target id.
has_binary_target_by_kind(g, id) ==
    \E t \in g.packages[id].targets : t.kind = "Binary"

has_binary_target(g, id) ==
    \E t \in g.packages[id].targets : t.id = "Binary"

changed_crates_of(g, direct, excl) ==
    sort(names_of(g, SelectSeq(direct, LAMBDA id : member_filter(g, id, excl))))

\* Faulty variant: exclusion prunes the traversal, dropping what depends on an
\* excluded package.
affected_library_members_pruned(g, set, excl) ==
    sort(names_of(g, SelectSeq(packages_forward(g, set),
                               LAMBDA id : \A p \in Closure({id}, g.deps) :
                                               member_filter(g, p, excl))))

affected_library_members_of(g, set, excl) ==
    sort(names_of(g, SelectSeq(packages_forward(g, set),
                               LAMBDA id : member_filter(g, id, excl))))

affected_binary_members_of(g, set, excl) ==
    sort(names_of(g, SelectSeq(packages_forward(g, set),
                               LAMBDA id : /\ member_filter(g, id, excl)
                                           /\ has_binary_target(g, id))))

AffectedResult(force, changed, affected, binaries) ==
    [force_all |-> force,
     changed_crates |-> changed,
     affected_library_members |-> affected,
     affected_binary_members |-> binaries]

\* Faulty variant: the early return is missing.
is_empty_never(files) == FALSE

\* The early return on an empty changed-file list.
is_empty(files) == files = << >>

resolve(g, force, direct) ==
    IF force THEN query_workspace(g) ELSE query_reverse(g, direct)

\* compute_affected as a function of its inputs: <<r>> when it returns r,
\* << >> when it panics.
compute_affected(g, files, triggers, excl) ==
    IF is_empty(files) THEN <<AffectedResult(FALSE, << >>, << >>, << >>)>>
    ELSE LET force == check_force_triggers(files, triggers)
             direct == map_changed_files(g, files)
             set == resolve(g, force.value, direct)
         IN  IF ~force.ok THEN << >>
             ELSE <<AffectedResult(force.value,
                                   changed_crates_of(g, direct, excl),
                                   affected_library_members_of(g, set, excl),
                                   affected_binary_members_of(g, set, excl))>>

RECURSIVE any_in_order(_, _, _)
\* excluded.iter().any(..) under one iteration order of the hash set: the
\* entries are tried in that order and the first hit ends the iteration.
any_in_order(name, dir, order) ==
    IF order = << >> THEN FALSE
    ELSE IF entry_excludes(order[1], name, dir) THEN TRUE
    ELSE any_in_order(name, dir, Tail(order))

----------------------------------------------------------------------------
(* The command-line program, main.rs *)

is_whitespace(c) == c \in {" ", "\n", "\t"}

RECURSIVE SplitFromWord(_, _, _, _)
\* str::split_whitespace from position i of s: word is the word being read,
\* words the words read so far.
SplitFromWord(s, i, word, words) ==
    IF i > Len(s)
    THEN IF word = << >> THEN words ELSE Append(words, word)
    ELSE IF is_whitespace(s[i])
    THEN SplitFromWord(s, i + 1, << >>,
                       IF word = << >> THEN words ELSE Append(words, word))
    ELSE SplitFromWord(s, i + 1, Append(word, s[i]), words)

split_whitespace(s) == SplitFromWord(s, 1, << >>, << >>)

RECURSIVE join(_, _)
\* The value of an environment variable listing entries, sep between them.
join(entries, sep) ==
    IF entries = << >> THEN << >>
    ELSE IF Len(entries) = 1 THEN entries[1]
    ELSE entries[1] \o <<sep>> \o join(Tail(entries), sep)

\* The environment a caller sets up for these inputs: space-separated
\* files, newline-separated triggers and exclusions.
Environment(files, triggers, excl) ==
    [CHANGED_FILES |-> join(files, " "),
     FORCE_TRIGGERS |-> join(triggers, "\n"),
     EXCLUDED_MEMBERS |->
         join(CHOOSE order \in [1..Cardinality(excl) -> excl] :
                  \A i, j \in 1..Cardinality(excl) : order[i] = order[j] => i = j,
              "\n")]

\* The binary-target test of main.rs, on the target kind.
main_has_binary_target(g, id) ==
    \E t \in g.packages[id].targets : t.kind = "Binary"

\* main as a function of the environment and the graph cargo metadata
\* yields: <<r>> when it emits r, << >> when it panics. It reads
\* CHANGED_FILES and FORCE_TRIGGERS and no other input variable.
main_output(g, env) ==
    LET files == split_whitespace(env.CHANGED_FILES)
        triggers == split_whitespace(env.FORCE_TRIGGERS)
    IN  IF files = << >> THEN <<AffectedResult(FALSE, << >>, << >>, << >>)>>
        ELSE LET force == check_force_triggers(files, triggers)
                 direct == map_changed_files(g, files)
                 set == resolve(g, force.value, direct)
                 named(id) == contains_name(g, pkg_name(g, id))
             IN  IF ~force.ok THEN << >>
                 ELSE <<AffectedResult(
                          force.value,
                          sort(names_of(g, SelectSeq(direct, named))),
                          sort(names_of(g, SelectSeq(packages_forward(g, set), named))),
                          sort(names_of(g, SelectSeq(packages_forward(g, set),
                                   LAMBDA id : named(id) /\ main_has_binary_target(g, id)))))>>

----------------------------------------------------------------------------
(* Inputs *)

MaxFiles == 2
MaxTriggers == 2
MaxExcluded == 2

FilePool ==
    <<<<"l","i","b","-","u","t","i","l","s","/","s","r","c","/","l","i","b",".","r","s">>, <<"l","i","b","-","c","o","r","e","-","e","x","t","/","s","r","c","/","l","i","b",".","r","s">>,
      <<"t","o","o","l","s","/","t","o","o","l","-","a","l","p","h","a","/","s","r","c","/","m","a","i","n",".","r","s">>, <<"i","n","f","r","a","/","d","e","p","l","o","y",".","y","m","l">>, <<"R","E","A","D","M","E",".","m","d">>>>

TriggerPool == <<<<"i","n","f","r","a","/">>, <<"[","b","a","d">>, <<"R","E","A","D","M","E",".","m","d">>, <<"l","i","b","-","*">>>>

ExcludedPool ==
    {<<"l","i","b","-","c","o","r","e">>, <<"l","i","b","-","c","o","r","e","/">>, <<"t","o","o","l","s">>, <<"t","o","o","l","s","/">>, <<"t","o","o","l","s","/","t","o","o","l","-","a","l","p","h","a">>}

\* The elements of pool at the indices idx, in the order of idx.
Pick(pool, idx) == [k \in 1..Len(idx) |-> pool[idx[k]]]

Increasing(idx) == \A k \in 1..(Len(idx) - 1) : idx[k] < idx[k + 1]

IndexSeqs(n, max) == UNION {[1..len -> 1..n] : len \in 0..max}

\* Changed-file lists: up to MaxFiles files of the pool, in pool order (the
\* code reads the list only through any(), so order and repeats are idle).
FileLists ==
    {Pick(FilePool, idx) : idx \in {i \in IndexSeqs(Len(FilePool), MaxFiles) : Increasing(i)}}

\* Trigger lists: up to MaxTriggers patterns of the pool, in pool order (the
\* invalid pattern comes after one valid pattern and before two).
TriggerLists ==
    {Pick(TriggerPool, idx) :
        idx \in {i \in IndexSeqs(Len(TriggerPool), MaxTriggers) : Increasing(i)}}

ExcludedSets == {e \in SUBSET ExcludedPool : Cardinality(e) <= MaxExcluded}

\* Changed files and trigger patterns for the pattern forms of the
\* documentation: a trailing slash, a bare name, the wildcards.
GlobFilePool ==
    <<<<"i","n","f","r","a">>, <<"i","n","f","r","a","/","d","e","p","l","o","y",".","y","m","l">>, <<"i","n","f","r","a","/","n","e","s","t","e","d","/","d","e","e","p","/","f","i","l","e",".","y","m","l">>,
      <<"i","n","f","r","a","-","o","t","h","e","r","/","x">>, <<"c","i","/","w","o","r","k","f","l","o","w",".","y","m","l">>, <<"c","i","/","s","u","b","/","w","o","r","k","f","l","o","w",".","y","m","l">>,
      <<"C","a","r","g","o",".","l","o","c","k">>, <<"s","u","b","/","C","a","r","g","o",".","l","o","c","k">>, <<"l","i","b","-","c","o","r","e","/","s","r","c","/","l","i","b",".","r","s">>>>

GlobTriggerPool ==
    <<<<"i","n","f","r","a","/">>, <<"c","i","/","*",".","y","m","l">>, <<"C","a","r","g","o",".","l","o","c","k">>, <<"c","?","/","w","o","r","k","f","l","o","w",".","y","m","l">>, <<"[","b","a","d">>>>

\* Changed files for the nested members: relative ones, and absolute ones
\* lying in a member's directory on disk.
NestedFilePool ==
    <<<<"o","u","t","e","r","/","i","n","n","e","r","/","s","r","c","/","m","a","i","n",".","r","s">>, <<"o","u","t","e","r","/","s","r","c","/","l","i","b",".","r","s">>, <<"s","i","d","e","/","s","r","c","/","l","i","b",".","r","s">>,
      <<"R","E","A","D","M","E",".","m","d">>, <<"/","w","/","o","u","t","e","r","/","s","r","c","/","l","i","b",".","r","s">>, <<"/","x","/","o","u","t","/","s","r","c","/","l","i","b",".","r","s">>>>

NestedTriggerPool == <<<<"/","w","/","o","u","t","e","r","/">>, <<"R","E","A","D","M","E",".","m","d">>, <<"[","b","a","d">>>>

NestedFileLists ==
    {Pick(NestedFilePool, idx) :
        idx \in {i \in IndexSeqs(Len(NestedFilePool), MaxFiles) : Increasing(i)}}

NestedTriggerLists ==
    {Pick(NestedTriggerPool, idx) :
        idx \in {i \in IndexSeqs(Len(NestedTriggerPool), MaxTriggers) : Increasing(i)}}

NestedExcludedSets ==
    {e \in SUBSET {<<"o","u","t","e","r","/">>, <<"t","o","p">>} : Cardinality(e) <= MaxExcluded}

GlobFileLists ==
    {Pick(GlobFilePool, idx) :
        idx \in {i \in IndexSeqs(Len(GlobFilePool), MaxFiles) : Increasing(i)}}

GlobTriggerLists ==
    {Pick(GlobTriggerPool, idx) :
        idx \in {i \in IndexSeqs(Len(GlobTriggerPool), MaxTriggers) : Increasing(i)}}

----------------------------------------------------------------------------
(* The run of compute_affected *)

Init ==
    /\ graph \in Graphs
    /\ changed_files \in FileLists
    /\ force_triggers \in TriggerLists
    /\ excluded \in ExcludedSets
    /\ pc = "start"
    /\ builder = << >>
    /\ force_all = FALSE
    /\ direct_ids = << >>
    /\ affected_set = {}
    /\ result = << >>
    /\ trace = {}

\* The runs over the pattern forms: the fixture workspace with an outside
\* dependency, no exclusions.
InitGlob ==
    /\ graph = Graph(<<"d","e","p">>, {<<"lu", "ext">>},
                     <<"aa", "ta", "tb", "lce", "lc", "lu", "ext">>)
    /\ changed_files \in GlobFileLists
    /\ force_triggers \in GlobTriggerLists
    /\ excluded = {}
    /\ pc = "start"
    /\ builder = << >>
    /\ force_all = FALSE
    /\ direct_ids = << >>
    /\ affected_set = {}
    /\ result = << >>
    /\ trace = {}

\* The runs over nested members, with relative and absolute changed files.
InitNested ==
    /\ graph \in NestedGraphs
    /\ changed_files \in NestedFileLists
    /\ force_triggers \in NestedTriggerLists
    /\ excluded \in NestedExcludedSets
    /\ pc = "start"
    /\ builder = << >>
    /\ force_all = FALSE
    /\ direct_ids = << >>
    /\ affected_set = {}
    /\ result = << >>
    /\ trace = {}

\* if changed_files.is_empty() { return AffectedResult { .. } }
EarlyReturn ==
    /\ pc = "start"
    /\ is_empty(changed_files)
    /\ result' = <<AffectedResult(FALSE, << >>, << >>, << >>)>>
    /\ pc' = "done"
    /\ UNCHANGED <<inputs, builder, force_all, direct_ids, affected_set, trace>>

\* The call of check_force_triggers.
CallCheckForceTriggers ==
    /\ pc = "start"
    /\ ~is_empty(changed_files)
    /\ pc' = "check_force_triggers"
    /\ trace' = trace \cup {"check_force_triggers"}
    /\ UNCHANGED <<inputs, builder, force_all, direct_ids, affected_set, result>>

\* if force_triggers.is_empty() { return false; }
NoTriggers ==
    /\ pc = "check_force_triggers"
    /\ force_triggers = << >>
    /\ force_all' = FALSE
    /\ pc' = "direct_ids"
    /\ UNCHANGED <<inputs, builder, direct_ids, affected_set, result, trace>>

\* One turn of the loop over force_triggers: builder.add(Glob::new(..)), or
\* the panic of unwrap_or_else.
AddGlob ==
    /\ pc = "check_force_triggers"
    /\ Len(builder) < Len(force_triggers)
    /\ LET glob == Glob_new(normalise(force_triggers[Len(builder) + 1]))
       IN  IF glob.ok
           THEN /\ builder' = Append(builder, glob.tokens)
                /\ pc' = pc
                /\ trace' = trace \cup {"compile"}
           ELSE /\ pc' = "panic"
                /\ UNCHANGED <<builder, trace>>
    /\ UNCHANGED <<inputs, force_all, direct_ids, affected_set, result>>

\* changed_files.iter().any(|f| globset.is_match(f))
MatchFiles ==
    /\ pc = "check_force_triggers"
    /\ force_triggers # << >>
    /\ Len(builder) = Len(force_triggers)
    /\ force_all' = \E n \in 1..Len(changed_files) : is_match(builder, changed_files[n])
    /\ pc' = "direct_ids"
    /\ trace' = trace \cup {"match"}
    /\ UNCHANGED <<inputs, builder, direct_ids, affected_set, result>>

\* The loop over the workspace that collects direct_ids.
MapChangedFiles ==
    /\ pc = "direct_ids"
    /\ direct_ids' = map_changed_files(graph, changed_files)
    /\ pc' = "affected_set"
    /\ trace' = trace \cup {"graph"}
    /\ UNCHANGED <<inputs, builder, force_all, affected_set, result>>

\* let affected_set = if force_all { .. } else { .. };
Resolve ==
    /\ pc = "affected_set"
    /\ affected_set' = resolve(graph, force_all, direct_ids)
    /\ pc' = "lists"
    /\ UNCHANGED <<inputs, builder, force_all, direct_ids, result, trace>>

\* The three sorted lists and the returned value.
\* Faulty variant: under force_all the changed crates are taken from the
\* affected set.
Assemble_changed_from_affected_set ==
    /\ pc = "lists"
    /\ result' = <<AffectedResult(force_all,
                                  IF force_all
                                  THEN affected_library_members_of(graph, affected_set, excluded)
                                  ELSE changed_crates_of(graph, direct_ids, excluded),
                                  affected_library_members_of(graph, affected_set, excluded),
                                  affected_binary_members_of(graph, affected_set, excluded))>>
    /\ pc' = "done"
    /\ UNCHANGED <<inputs, builder, force_all, direct_ids, affected_set, trace>>

Assemble ==
    /\ pc = "lists"
    /\ result' = <<AffectedResult(force_all,
                                  changed_crates_of(graph, direct_ids, excluded),
                                  affected_library_members_of(graph, affected_set, excluded),
                                  affected_binary_members_of(graph, affected_set, excluded))>>
    /\ pc' = "done"
    /\ UNCHANGED <<inputs, builder, force_all, direct_ids, affected_set, trace>>

\* One run of the command-line program on the same inputs, handed over in
\* the environment: it emits its output or panics.
main ==
    /\ pc = "start"
    /\ LET out == main_output(graph, Environment(changed_files, force_triggers,
                                                 excluded))
       IN  /\ result' = out
           /\ pc' = IF out = << >> THEN "panic" ELSE "emitted"
    /\ UNCHANGED <<inputs, builder, force_all, direct_ids, affected_set, trace>>

Next ==
    \/ EarlyReturn
    \/ CallCheckForceTriggers
    \/ NoTriggers
    \/ AddGlob
    \/ MatchFiles
    \/ MapChangedFiles
    \/ Resolve
    \/ Assemble

Spec == Init /\ [][Next]_vars

SpecGlob == InitGlob /\ [][Next]_vars

SpecNested == InitNested /\ [][Next]_vars

\* The runs of the command-line program.
SpecMain == Init /\ [][main]_vars

\* One call of compute_affected taken as a whole: it returns or panics.
CallComputeAffected ==
    /\ pc = "start"
    /\ LET out == compute_affected(graph, changed_files, force_triggers, excluded)
       IN  /\ result' = out
           /\ pc' = IF out = << >> THEN "panic" ELSE "done"
    /\ UNCHANGED <<inputs, builder, force_all, direct_ids, affected_set, trace>>

\* The calls of compute_affected, for what is claimed of its result alone.
SpecCall == Init /\ [][CallComputeAffected]_vars

----------------------------------------------------------------------------
(* Shapes *)

TypeOK ==
    /\ pc \in {"start", "check_force_triggers", "direct_ids", "affected_set",
               "lists", "done", "panic", "emitted"}
    /\ Len(result) <= 1
    /\ (result # << >>) = (pc \in {"done", "emitted"})

\* The run agrees with compute_affected as a function.
RunIsFunction ==
    /\ pc = "done" => result = compute_affected(graph, changed_files, force_triggers, excluded)
    /\ pc = "panic" => compute_affected(graph, changed_files, force_triggers, excluded) = << >>

----------------------------------------------------------------------------
(* Vocabulary of the properties *)

Done == pc = "done"

Returned == result[1]

member_ids(g) == {g.members[i] : i \in 1..Len(g.members)}

Elems(list) == {list[i] : i \in 1..Len(list)}

Count(list, x) == Cardinality({i \in 1..Len(list) : list[i] = x})

Ascending(list) ==
    \A i \in 1..(Len(list) - 1) : list[i] = list[i + 1] \/ StrLess(list[i], list[i + 1])

StrictlyAscending(list) ==
    \A i \in 1..(Len(list) - 1) : StrLess(list[i], list[i + 1])

\* list is the ascending list of the names of the packages in ids, one
\* entry for each package.
ListsPackages(list, g, ids) ==
    /\ Ascending(list)
    /\ \A n \in Elems(list) \cup {pkg_name(g, id) : id \in ids} :
           Count(list, n) = Cardinality({id \in ids : pkg_name(g, id) = n})

\* a, and the packages a depends on through any number of edges.
Dependencies(g, a) == Closure({a}, g.deps)

\* dir is file, or a leading part of file that ends at a separator (the
\* files of the pool are relative and have no "." or empty components).
DirContains(dir, file) ==
    \/ dir = << >>
    \/ dir = file
    \/ /\ Len(file) > Len(dir)
       /\ SubSeq(file, 1, Len(dir)) = dir
       /\ file[Len(dir) + 1] = "/"

\* The members with a changed file inside their directory.
DirectlyChanged(g, files) ==
    {m \in member_ids(g) :
        \E n \in 1..Len(files) : DirContains(relative_dir(g, m), files[n])}

\* The packages that are, or depend on, a directly changed member.
ReverseClosure(g, files) ==
    LET changed == DirectlyChanged(g, files)
    IN  {p \in pkg_ids(g) : Dependencies(g, p) \cap changed # {}}

\* The packages some rule of excl matches.
Matched(g, excl) ==
    {p \in pkg_ids(g) : is_excluded(pkg_name(g, p), relative_dir(g, p), excl)}

SubLists(list) ==
    {Pick(list, idx) : idx \in {i \in IndexSeqs(Len(list), Len(list)) : Increasing(i)}}

----------------------------------------------------------------------------
(* Properties *)

\* C1: with a non-empty changed-file list and no trigger match,
\* affected_library_members is the list of the names of exactly the members
\* that are not excluded and are, or depend on, a directly changed member.
C1_ReverseClosureOfMembers ==
    (Done /\ changed_files # << >> /\ ~Returned.force_all) =>
        LET expected == {m \in member_ids(graph) \cap ReverseClosure(graph, changed_files) :
                            m \notin Matched(graph, excluded)}
        IN  ListsPackages(Returned.affected_library_members, graph, expected)

\* C2: when force_all is returned true, the names in affected_library_members
\* are exactly the names of the members that are not excluded.
C2_ForceAllIsWholeWorkspace ==
    (Done /\ Returned.force_all) =>
        Elems(Returned.affected_library_members) =
            {pkg_name(graph, m) : m \in member_ids(graph) \ Matched(graph, excluded)}

\* The packages a list stands for when nothing is excluded: those of the
\* set that carry a member's name.
Named(g, set) == {p \in set : contains_name(g, pkg_name(g, p))}

\* The set the traversal yields, which no exclusion rule enters: every
\* package of the graph under force_all, else the reverse closure.
Reached(g, files, force) ==
    IF force THEN pkg_ids(g) ELSE ReverseClosure(g, files)

WithBinary(g, set) == {p \in set : has_binary_target(g, p)}

\* C3: exclusion never affects reachability.  Each list computed with the
\* exclusion set is the list computed with no exclusions, less the packages
\* the exclusion set matches; and a member that is not excluded and depends
\* on an affected excluded package is still in affected_library_members.
C3_ExclusionKeepsReachability ==
    (Done /\ changed_files # << >>) =>
        LET plain == compute_affected(graph, changed_files, force_triggers, {})
            out == Matched(graph, excluded)
            changed == DirectlyChanged(graph, changed_files)
            all == Reached(graph, changed_files, Returned.force_all)
            reached == Named(graph, all)
            binaries == WithBinary(graph, reached)
        IN  /\ plain # << >>
            /\ plain[1].force_all = Returned.force_all
            /\ ListsPackages(plain[1].changed_crates, graph, changed)
            /\ ListsPackages(Returned.changed_crates, graph, changed \ out)
            /\ ListsPackages(plain[1].affected_library_members, graph, reached)
            /\ ListsPackages(Returned.affected_library_members, graph, reached \ out)
            /\ ListsPackages(plain[1].affected_binary_members, graph, binaries)
            /\ ListsPackages(Returned.affected_binary_members, graph, binaries \ out)
            /\ \A d \in member_ids(graph) \ out :
                   Dependencies(graph, d) \cap out \cap all # {} =>
                       pkg_name(graph, d) \in Elems(Returned.affected_library_members)

\* C3 witness: lib-utils changed, lib-core excluded by name and on the path
\* to app-alpha, which is still reported.
C3_Witness ==
    /\ Done
    /\ changed_files = <<<<"l","i","b","-","u","t","i","l","s","/","s","r","c","/","l","i","b",".","r","s">>>>
    /\ excluded = {<<"l","i","b","-","c","o","r","e">>}
    /\ ~Returned.force_all
    /\ <<"a","p","p","-","a","l","p","h","a">> \in Elems(Returned.affected_library_members)
    /\ <<"l","i","b","-","c","o","r","e">> \notin Elems(Returned.affected_library_members)

\* C4: each returned list is ascending and holds no name twice.
C4_SortedWithoutDuplicates ==
    Done =>
        /\ StrictlyAscending(Returned.changed_crates)
        /\ StrictlyAscending(Returned.affected_library_members)
        /\ StrictlyAscending(Returned.affected_binary_members)

\* C5: an empty changed-file list returns force_all = false and three empty
\* lists, whatever the other inputs, with no trigger compiled or matched and
\* no graph query made.
C5_EmptyChangeSetShortCircuits ==
    changed_files = << >> =>
        /\ pc \in {"start", "done"}
        /\ trace = {}
        /\ builder = << >>
        /\ Done => Returned = AffectedResult(FALSE, << >>, << >>, << >>)

\* C5 witness: the empty result, returned with an invalid trigger and an
\* exclusion rule among the inputs.
C5_Witness ==
    /\ Done
    /\ changed_files = << >>
    /\ <<"[","b","a","d">> \in Elems(force_triggers)
    /\ excluded # {}
    /\ Returned = AffectedResult(FALSE, << >>, << >>, << >>)

\* C6: changed_crates lists exactly the members that are not excluded and
\* have a changed file inside their directory; a file under lib-core-ext/
\* does not mark lib-core, and a file inside no member marks nothing.
C6_ChangedCratesAreDirectMembers ==
    (Done /\ changed_files # << >>) =>
        /\ ListsPackages(Returned.changed_crates, graph,
                         DirectlyChanged(graph, changed_files) \ Matched(graph, excluded))
        /\ StrictlyAscending(Returned.changed_crates)
        /\ <<"l","i","b","-","c","o","r","e">> \notin Elems(Returned.changed_crates)
        /\ Elems(changed_files) \subseteq {<<"R","E","A","D","M","E",".","m","d">>, <<"i","n","f","r","a","/","d","e","p","l","o","y",".","y","m","l">>} =>
               Returned.changed_crates = << >>

\* C6 witness: a file under lib-core-ext/ and one outside every member.
C6_Witness ==
    /\ Done
    /\ changed_files = <<<<"l","i","b","-","c","o","r","e","-","e","x","t","/","s","r","c","/","l","i","b",".","r","s">>, <<"R","E","A","D","M","E",".","m","d">>>>
    /\ excluded = {}
    /\ Returned.changed_crates = <<<<"l","i","b","-","c","o","r","e","-","e","x","t">>>>

\* C7: every name reported in affected_library_members for a sub-list of the
\* changed files is reported for the whole list.
C7_MoreFilesNeverRemove ==
    Done =>
        \A c \in SubLists(changed_files) :
            LET part == compute_affected(graph, c, force_triggers, excluded)
            IN  /\ part # << >>
                /\ Elems(part[1].affected_library_members)
                       \subseteq Elems(Returned.affected_library_members)

\* C7 witness: the whole list forces all, a non-empty part of it does not
\* and reports fewer members.
C7_Witness ==
    /\ Done
    /\ Returned.force_all
    /\ \E c \in SubLists(changed_files) :
           LET part == compute_affected(graph, c, force_triggers, excluded)[1]
           IN  /\ ~part.force_all
               /\ part.affected_library_members # << >>
               /\ Len(part.affected_library_members)
                      < Len(Returned.affected_library_members)

\* The pattern matched for a trigger: "**" appended after a trailing slash.
TrailingSlashNormal(trigger) ==
    IF trigger # << >> /\ trigger[Len(trigger)] = "/"
    THEN trigger \o <<"*","*">>
    ELSE trigger

Matches(pattern, path) ==
    LET glob == Glob_new(pattern) IN glob.ok /\ glob_is_match(glob.tokens, path)

SomeTriggerMatches(files, triggers) ==
    \E n \in 1..Len(files) : \E k \in 1..Len(triggers) :
        Matches(TrailingSlashNormal(triggers[k]), files[n])

\* C8: check_force_triggers returns false for an empty trigger list and
\* otherwise true exactly when some changed file matches some normalised
\* pattern; with changed files, force_all of compute_affected is that value.
C8_ForceAllIffTriggerMatches ==
    LET expected == force_triggers # << >> /\ SomeTriggerMatches(changed_files, force_triggers)
        returned == check_force_triggers(changed_files, force_triggers)
    IN  /\ returned.ok => returned.value = expected
        /\ force_triggers = << >> => returned.ok /\ ~returned.value
        /\ pc \in {"direct_ids", "affected_set", "lists"} => force_all = expected
        /\ (Done /\ changed_files # << >>) => Returned.force_all = expected

\* C8 witness: two triggers, the first matching no changed file.
C8_Witness ==
    /\ Done
    /\ Returned.force_all
    /\ Len(force_triggers) = 2
    /\ ~SomeTriggerMatches(changed_files, <<force_triggers[1]>>)

\* A pattern of the pool is malformed when it opens a character class.
Malformed(trigger) == contains(trigger, "[")

HasMalformed(triggers) == \E k \in 1..Len(triggers) : Malformed(triggers[k])

\* C9 as claimed: with a malformed pattern in the trigger list no result is
\* produced, whatever the changed-file list.
C9_MalformedPatternAlwaysFatal ==
    HasMalformed(force_triggers) => ~Done

\* C9 amended: with a non-empty changed-file list and a malformed pattern in
\* the trigger list the run can only end in the panic, raised while the
\* patterns are compiled: no file is matched, no later step is reached and
\* no result is produced.
C9_MalformedPatternFatalWithChangedFiles ==
    (HasMalformed(force_triggers) /\ changed_files # << >>) =>
        /\ pc \in {"start", "check_force_triggers", "panic"}
        /\ "match" \notin trace
        /\ "graph" \notin trace
        /\ result = << >>
        /\ \E k \in (Len(builder) + 1)..Len(force_triggers) : Malformed(force_triggers[k])
        /\ compute_affected(graph, changed_files, force_triggers, excluded) = << >>

\* C9 witness: the panic, after a valid pattern that matches a changed file.
C9_Witness ==
    /\ pc = "panic"
    /\ force_triggers = <<<<"i","n","f","r","a","/">>, <<"[","b","a","d">>>>
    /\ <<"i","n","f","r","a","/","d","e","p","l","o","y",".","y","m","l">> \in Elems(changed_files)
    /\ Len(builder) = 1

\* rule, less one trailing slash, is dir or ends at a separator of dir.
RuleCovers(rule, dir) ==
    LET r == IF rule[Len(rule)] = "/" THEN SubSeq(rule, 1, Len(rule) - 1) ELSE rule
    IN  \/ dir = r
        \/ /\ Len(dir) > Len(r)
           /\ SubSeq(dir, 1, Len(r)) = r
           /\ dir[Len(r) + 1] = "/"

\* C10: a rule with a '/' excludes a package exactly when the rule, less one
\* trailing slash, is the package's relative directory or a leading part of
\* it that ends at a separator: "tools/" and "tools/tool-alpha" exclude
\* tool-alpha, "tools/" leaves tools-other/tool-beta and "lib-core/" leaves
\* lib-core-ext.
C10_PathRuleStopsAtSeparator ==
    /\ \A e \in excluded : contains(e, "/") =>
           \A p \in pkg_ids(graph) :
               is_excluded(pkg_name(graph, p), relative_dir(graph, p), {e})
                   = RuleCovers(e, relative_dir(graph, p))
    /\ (Done /\ Returned.force_all) =>
           LET listed == Elems(Returned.affected_library_members)
           IN  /\ excluded \in {{<<"t","o","o","l","s","/">>}, {<<"t","o","o","l","s","/","t","o","o","l","-","a","l","p","h","a">>}} =>
                      <<"t","o","o","l","-","a","l","p","h","a">> \notin listed /\ <<"t","o","o","l","-","b","e","t","a">> \in listed
               /\ excluded = {<<"l","i","b","-","c","o","r","e","/">>} => <<"l","i","b","-","c","o","r","e","-","e","x","t">> \in listed

\* C10 witness: everything forced, "tools/" the only rule.
C10_Witness ==
    /\ Done
    /\ Returned.force_all
    /\ excluded = {<<"t","o","o","l","s","/">>}
    /\ <<"t","o","o","l","-","a","l","p","h","a">> \notin Elems(Returned.affected_library_members)
    /\ <<"t","o","o","l","-","b","e","t","a">> \in Elems(Returned.affected_library_members)

\* A rule is a path rule when it holds a separator, else a name rule.
PathRule(rule) == "/" \in Elems(rule)

\* The packages some rule matches: a path rule by the directory, a name
\* rule by the name.
RuledOut(g, rules) ==
    {p \in pkg_ids(g) :
        \E r \in rules : IF PathRule(r)
                         THEN RuleCovers(r, relative_dir(g, p))
                         ELSE pkg_name(g, p) = r}

\* C11: a rule without '/' excludes exactly the packages whose name equals
\* it and is never tried against a directory ("tools" leaves the packages
\* under tools/); a rule with '/' is never tried against a name (both told
\* of the inputs, which a run never changes); a package is dropped from the
\* three lists exactly when some rule matches it.
C11_NameRuleMatchesNameOnly ==
    /\ pc = "start" =>
           \A e \in excluded : \A p \in pkg_ids(graph) :
               is_excluded(pkg_name(graph, p), relative_dir(graph, p), {e})
                   = (p \in RuledOut(graph, {e}))
    /\ pc = "start" =>
         \A e \in excluded :
           /\ ~PathRule(e) =>
                  RuledOut(graph, {e}) = {p \in pkg_ids(graph) : pkg_name(graph, p) = e}
           /\ PathRule(e) =>
                  \A p \in pkg_ids(graph) :
                      (pkg_name(graph, p) = e /\ ~RuleCovers(e, relative_dir(graph, p)))
                          => p \notin Matched(graph, {e})
    /\ (Done /\ changed_files # << >>) =>
           LET out == RuledOut(graph, excluded)
               all == Named(graph, Reached(graph, changed_files, Returned.force_all))
           IN  /\ ListsPackages(Returned.changed_crates, graph,
                                DirectlyChanged(graph, changed_files) \ out)
               /\ ListsPackages(Returned.affected_library_members, graph, all \ out)
               /\ ListsPackages(Returned.affected_binary_members, graph,
                                WithBinary(graph, all \ out))
               /\ (excluded = {<<"t","o","o","l","s">>} /\ Returned.force_all) =>
                      <<"t","o","o","l","-","a","l","p","h","a">> \in Elems(Returned.affected_library_members)

\* C11 witness: everything forced, "tools" and "lib-core" the rules:
\* tool-alpha under tools/ is listed, lib-core is not.
C11_Witness ==
    /\ Done
    /\ Returned.force_all
    /\ excluded = {<<"t","o","o","l","s">>, <<"l","i","b","-","c","o","r","e">>}
    /\ <<"t","o","o","l","-","a","l","p","h","a">> \in Elems(Returned.affected_library_members)
    /\ <<"l","i","b","-","c","o","r","e">> \notin Elems(Returned.affected_library_members)

\* The packages with a target built as a binary (a bin target).
Binaries(g) == {p \in pkg_ids(g) : BinaryTarget \in g.packages[p].targets}

\* C12: affected_binary_members lists exactly the packages behind
\* affected_library_members that have a binary target; lib-core-ext, a
\* library with integration tests only, is never in it.
C12_BinaryMembersHaveBinaryTarget ==
    (Done /\ changed_files # << >>) =>
        LET listed == Named(graph, Reached(graph, changed_files, Returned.force_all))
                          \ Matched(graph, excluded)
        IN  /\ ListsPackages(Returned.affected_library_members, graph, listed)
            /\ ListsPackages(Returned.affected_binary_members, graph,
                             listed \cap Binaries(graph))
            /\ Elems(Returned.affected_binary_members)
                   \subseteq Elems(Returned.affected_library_members)
            /\ <<"l","i","b","-","c","o","r","e","-","e","x","t">> \notin Elems(Returned.affected_binary_members)

\* C12 witness: everything forced; lib-core-ext is an affected member and
\* not a binary member, while binaries are reported.
C12_Witness ==
    /\ Done
    /\ Returned.force_all
    /\ <<"l","i","b","-","c","o","r","e","-","e","x","t">> \in Elems(Returned.affected_library_members)
    /\ <<"l","i","b","-","c","o","r","e","-","e","x","t">> \notin Elems(Returned.affected_binary_members)
    /\ <<"a","p","p","-","a","l","p","h","a">> \in Elems(Returned.affected_binary_members)

Reverse(s) == [i \in 1..Len(s) |-> s[Len(s) + 1 - i]]

Rotate(s) == IF s = << >> THEN s ELSE Tail(s) \o <<s[1]>>

\* The same graph yielding its packages in other orders.
Reorderings(g) ==
    { [g EXCEPT !.members = Reverse(@), !.forward = Reverse(@)],
      [g EXCEPT !.members = Rotate(@), !.forward = Rotate(Rotate(@))] }

\* The iteration orders a hash set of these entries can have.
Orderings(set) ==
    {s \in [1..Cardinality(set) -> set] :
        \A i, j \in 1..Cardinality(set) : s[i] = s[j] => i = j}

\* C13: the outcome of a run (the returned record with its list orders, or
\* the panic) is the same whatever order the graph yields its packages in
\* and whatever order the exclusion set is iterated in (the exclusion test
\* reads the graph and the set only: it is compared once for each pair, in
\* the run without changed files and triggers).
C13_ResultIndependentOfIterationOrder ==
    /\ (pc \in {"done", "panic"}) =>
           /\ result = compute_affected(graph, changed_files, force_triggers,
                                        excluded)
           /\ \A h \in Reorderings(graph) :
                  compute_affected(h, changed_files, force_triggers, excluded)
                      = result
    /\ (Done /\ changed_files = << >> /\ force_triggers = << >>) =>
           \A order \in Orderings(excluded), p \in pkg_ids(graph) :
               any_in_order(pkg_name(graph, p), relative_dir(graph, p), order)
                   = is_excluded(pkg_name(graph, p), relative_dir(graph, p),
                                 excluded)

\* C13 witness: a run with two exclusion entries whose library list has
\* three names or more and comes out of the graph in another order than the
\* one returned.
C13_Witness ==
    /\ Done
    /\ Cardinality(excluded) = 2
    /\ Len(Returned.affected_library_members) >= 3
    /\ names_of(graph,
                SelectSeq(packages_forward(graph,
                              resolve(graph, Returned.force_all,
                                      map_changed_files(graph, changed_files))),
                          LAMBDA id : member_filter(graph, id, excluded)))
           # Returned.affected_library_members

EndsWith(s, suffix) ==
    /\ Len(s) >= Len(suffix)
    /\ SubSeq(s, Len(s) - Len(suffix) + 1, Len(s)) = suffix

\* path is dir or lies beneath it.
InOrBeneath(path, dir) == path = dir \/ str_starts_with(path, dir \o <<"/">>)

\* C14 as claimed: with "infra/" as the only trigger, force_all is true
\* exactly when a changed file is "infra" itself or lies beneath it at any
\* depth; "infra-other/x" does not count.
C14_TrailingSlashMatchesDirectoryAndBeneath ==
    (Done /\ changed_files # << >> /\ force_triggers = <<<<"i","n","f","r","a","/">>>>) =>
        Returned.force_all
            = \E n \in 1..Len(changed_files) : InOrBeneath(changed_files[n], <<"i","n","f","r","a">>)

\* A file directly in directory dir whose name ends with suffix.
FileOf(path, dir, suffix) ==
    LET c == components(path)
    IN  Len(c) = 2 /\ c[1] = dir /\ EndsWith(c[2], suffix)

\* C15 as claimed: with "ci/*.yml" as the only trigger, force_all is true
\* exactly when a changed file is a .yml file directly in ci/; with
\* "c?/workflow.yml", when it is workflow.yml in a directory named c plus
\* one character.
C15_SingleStarStaysInOneSegment ==
    /\ (Done /\ changed_files # << >> /\ force_triggers = <<<<"c","i","/","*",".","y","m","l">>>>) =>
           Returned.force_all
               = \E n \in 1..Len(changed_files) :
                     FileOf(changed_files[n], <<"c","i">>, <<".","y","m","l">>)
    /\ (Done /\ changed_files # << >> /\ force_triggers = <<<<"c","?","/","w","o","r","k","f","l","o","w",".","y","m","l">>>>) =>
           Returned.force_all
               = \E n \in 1..Len(changed_files) :
                     LET c == components(changed_files[n])
                     IN  /\ Len(c) = 2 /\ Len(c[1]) = 2 /\ c[1][1] = "c"
                         /\ c[2] = <<"w","o","r","k","f","l","o","w",".","y","m","l">>

\* A pattern without wildcard, character class or trailing slash.
BareName(trigger) ==
    /\ trigger # << >>
    /\ Elems(trigger) \cap {"*", "?", "[", "]", "{", "}", "\\"} = {}
    /\ trigger[Len(trigger)] # "/"

\* C16: a bare-name trigger matches a changed file exactly when the two are
\* the same string; when every trigger is a bare name, force_all is true
\* exactly when some changed file equals some trigger.
C16_BareNameMatchesExactPathOnly ==
    /\ \A k \in 1..Len(force_triggers), n \in 1..Len(changed_files) :
           BareName(force_triggers[k]) =>
               LET glob == Glob_new(normalise(force_triggers[k]))
               IN  /\ glob.ok
                   /\ glob_is_match(glob.tokens, changed_files[n])
                          = (changed_files[n] = force_triggers[k])
    /\ (Done /\ changed_files # << >>
             /\ \A k \in 1..Len(force_triggers) : BareName(force_triggers[k])) =>
           Returned.force_all
               = \E k \in 1..Len(force_triggers), n \in 1..Len(changed_files) :
                     changed_files[n] = force_triggers[k]

\* C16 witness: "Cargo.lock" is the only trigger and sub/Cargo.lock changed,
\* not Cargo.lock: nothing is forced.
C16_Witness ==
    /\ Done
    /\ force_triggers = <<<<"C","a","r","g","o",".","l","o","c","k">>>>
    /\ <<"s","u","b","/","C","a","r","g","o",".","l","o","c","k">> \in Elems(changed_files)
    /\ ~Returned.force_all

Emitted == pc = "emitted"

\* C17 as claimed: what the command-line program emits names no package
\* that a name rule of EXCLUDED_MEMBERS names, in any of the three lists,
\* and still names every other member that is affected.
C17_MainHonoursExcludedMembers ==
    Emitted =>
        LET names == {e \in excluded : ~PathRule(e)}
            affected == Named(graph, Reached(graph, changed_files, Returned.force_all))
        IN  /\ names \cap Elems(Returned.changed_crates) = {}
            /\ names \cap Elems(Returned.affected_library_members) = {}
            /\ names \cap Elems(Returned.affected_binary_members) = {}
            /\ changed_files # << >> =>
                   \A p \in affected \ Matched(graph, excluded) :
                       pkg_name(graph, p) \in Elems(Returned.affected_library_members)

\* Every entry of list stands for a package of ids of its own: a name is
\* listed at most as often as ids has packages of that name.
EntriesFrom(list, g, ids) ==
    \A n \in Elems(list) :
        Count(list, n) <= Cardinality({p \in ids : pkg_name(g, p) = n})

\* C18 as claimed: every entry of the three lists stands for a workspace
\* member of the affected set; a package outside the workspace adds no
\* entry, whatever its name.
C18_OnlyWorkspaceMembersReported ==
    (Done /\ changed_files # << >>) =>
        LET affected == member_ids(graph)
                            \cap Reached(graph, changed_files, Returned.force_all)
        IN  /\ EntriesFrom(Returned.changed_crates, graph, affected)
            /\ EntriesFrom(Returned.affected_library_members, graph, affected)
            /\ EntriesFrom(Returned.affected_binary_members, graph, affected)

\* C19: a trigger match leaves changed_crates as it is without triggers:
\* the directly changed members that no rule excludes, and nothing when
\* the changed files lie in no member.
C19_ForceAllLeavesChangedCrates ==
    (Done /\ Returned.force_all) =>
        LET direct == DirectlyChanged(graph, changed_files)
            unforced == compute_affected(graph, changed_files, << >>, excluded)[1]
        IN  /\ ~unforced.force_all
            /\ Returned.changed_crates = unforced.changed_crates
            /\ ListsPackages(Returned.changed_crates, graph,
                             direct \ Matched(graph, excluded))
            /\ direct = {} => Returned.changed_crates = << >>

\* C19 witness: a file of lib-utils and a trigger file changed; the whole
\* workspace is affected and lib-utils alone is changed.
C19_Witness ==
    /\ Done
    /\ Returned.force_all
    /\ changed_files = <<<<"l","i","b","-","u","t","i","l","s","/","s","r","c","/","l","i","b",".","r","s">>, <<"i","n","f","r","a","/","d","e","p","l","o","y",".","y","m","l">>>>
    /\ Returned.changed_crates = <<<<"l","i","b","-","u","t","i","l","s">>>>
    /\ Len(Returned.affected_library_members) >= 6

\* C20: every name of changed_crates and of affected_binary_members is a
\* name of affected_library_members, and every directly changed member
\* that no rule excludes is in affected_library_members.
C20_ChangedAndBinaryWithinAffected ==
    Done =>
        /\ Elems(Returned.changed_crates)
               \subseteq Elems(Returned.affected_library_members)
        /\ Elems(Returned.affected_binary_members)
               \subseteq Elems(Returned.affected_library_members)
        /\ \A m \in DirectlyChanged(graph, changed_files) \ Matched(graph, excluded) :
               /\ pkg_name(graph, m) \in Elems(Returned.changed_crates)
               /\ pkg_name(graph, m) \in Elems(Returned.affected_library_members)

\* C20 witness: a file of tool-alpha alone changed, nothing forced: the
\* three lists are tool-alpha.
C20_Witness ==
    /\ Done
    /\ ~Returned.force_all
    /\ Returned.changed_crates = <<<<"t","o","o","l","-","a","l","p","h","a">>>>
    /\ Returned.affected_library_members = <<<<"t","o","o","l","-","a","l","p","h","a">>>>
    /\ Returned.affected_binary_members = <<<<"t","o","o","l","-","a","l","p","h","a">>>>

\* C21 as claimed: with no exclusion rule, the command-line program emits
\* what compute_affected returns for the same graph, changed files and
\* triggers, the binary members included, and panics when it panics.
C21_MainAgreesWithComputeAffected ==
    (excluded = {} /\ pc \in {"emitted", "panic"}) =>
        result = compute_affected(graph, changed_files, force_triggers, {})

Absolute(path) == path # << >> /\ path[1] = "/"

\* C22: the directly changed packages are all the members whose relative
\* directory is a prefix, component by component, of some changed file: a
\* file of inner marks outer as well, and a member at the workspace root is
\* marked by every relative path, so that what depends on it is affected.
C22_ContainmentNotExclusive ==
    /\ pc \in {"affected_set", "lists", "done"} /\ changed_files # << >> =>
           /\ Elems(direct_ids) = DirectlyChanged(graph, changed_files)
           /\ \A n \in 1..Len(changed_files) :
                  DirectlyChanged(graph, <<changed_files[n]>>) \subseteq Elems(direct_ids)
    /\ (Done /\ <<"o","u","t","e","r","/","i","n","n","e","r","/","s","r","c","/","m","a","i","n",".","r","s">> \in Elems(changed_files)) =>
           /\ {"inner", "outer"} \subseteq Elems(direct_ids)
           /\ \A m \in {"inner", "outer"} \ Matched(graph, excluded) :
                  pkg_name(graph, m) \in Elems(Returned.changed_crates)
    /\ (Done /\ "top" \in member_ids(graph)
             /\ \E n \in 1..Len(changed_files) : ~Absolute(changed_files[n])) =>
           /\ "top" \in Elems(direct_ids)
           /\ <<"u","s","e","r">> \in Elems(Returned.affected_library_members)
           /\ "top" \notin Matched(graph, excluded) =>
                  /\ <<"t","o","p">> \in Elems(Returned.changed_crates)
                  /\ <<"t","o","p">> \in Elems(Returned.affected_library_members)

\* C22 witness: one file of inner changed, nothing forced or excluded: inner,
\* outer and the root package are changed and the dependent of the root
\* package is affected.
C22_Witness ==
    /\ Done
    /\ changed_files = <<<<"o","u","t","e","r","/","i","n","n","e","r","/","s","r","c","/","m","a","i","n",".","r","s">>>>
    /\ ~Returned.force_all
    /\ excluded = {}
    /\ Returned.changed_crates = <<<<"i","n","n","e","r">>, <<"o","u","t","e","r">>, <<"t","o","p">>>>
    /\ Returned.affected_library_members = <<<<"i","n","n","e","r">>, <<"o","u","t","e","r">>, <<"t","o","p">>, <<"u","s","e","r">>>>

AllAbsolute(files) ==
    files # << >> /\ \A n \in 1..Len(files) : Absolute(files[n])

\* C23 as claimed: when every changed file is an absolute path, no package
\* is directly changed, and without a trigger match nothing is affected.
C23_AbsolutePathMatchesNoPackage ==
    (Done /\ AllAbsolute(changed_files)) =>
        /\ Returned.changed_crates = << >>
        /\ ~Returned.force_all =>
               /\ Returned.affected_library_members = << >>
               /\ Returned.affected_binary_members = << >>

\* The members an absolute path can mark: one at the workspace root, whose
\* relative directory is empty, and one outside the workspace root, whose
\* directory stays absolute, when the path lies in it.
MarkedByAbsolute(g, files) ==
    {m \in member_ids(g) :
        \/ g.relative_dirs[m] = << >>
        \/ /\ Absolute(g.relative_dirs[m])
           /\ \E n \in 1..Len(files) : DirContains(g.relative_dirs[m], files[n])}

\* C23 amended: when every changed file is an absolute path, no member with
\* a non-empty relative directory is directly changed, also when a file lies
\* in that directory on disk; the changed crates are the members at the
\* workspace root or with an absolute directory around a file; the triggers
\* are matched as for any path; with no trigger match and no such member
\* the three lists are empty.
C23_AbsolutePathMatchesNoRelativeDirectory ==
    (Done /\ AllAbsolute(changed_files)) =>
        LET marked == MarkedByAbsolute(graph, changed_files)
        IN  /\ \A m \in member_ids(graph) :
                   (graph.relative_dirs[m] # << >> /\ ~Absolute(graph.relative_dirs[m])) => m \notin Elems(direct_ids)
            /\ Elems(direct_ids) = marked
            /\ ListsPackages(Returned.changed_crates, graph,
                             marked \ Matched(graph, excluded))
            /\ Returned.force_all
                   = (force_triggers # << >>
                      /\ SomeTriggerMatches(changed_files, force_triggers))
            /\ (marked = {} /\ ~Returned.force_all) =>
                   /\ Returned.affected_library_members = << >>
                   /\ Returned.affected_binary_members = << >>

\* C23 witness: the absolute path of a file of outer changed, in the
\* workspace with a root package: the trigger "/w/outer/" matches it, outer
\* is not changed and the root package is.
C23_Witness ==
    /\ Done
    /\ changed_files = <<<<"/","w","/","o","u","t","e","r","/","s","r","c","/","l","i","b",".","r","s">>>>
    /\ force_triggers = <<<<"/","w","/","o","u","t","e","r","/">>>>
    /\ excluded = {}
    /\ Returned.force_all
    /\ Returned.changed_crates = <<<<"t","o","p">>>>
    /\ <<"o","u","t","e","r">> \in Elems(Returned.affected_library_members)

====
